---- MODULE Spec2Model ----
(***************************************************************************)
(* State-machine model of src/AsteroidExplorer.jsx: the React state of the *)
(* AsteroidExplorer component (catalog, selection, loading flag, query),   *)
(* its two best-effort fetches (fetchNeos on mount, fetchSBDBDetails on    *)
(* every click), the search filter, and the hashCode seed helper.          *)
(*                                                                         *)
(* JavaScript values are written as TLA+ strings: a number by its literal  *)
(* ("0.340"), null as Null, a missing property (undefined) as Undefined.   *)
(* TLA+ strings are ASCII, so the en/em dashes of the source's texts are   *)
(* written "-".                                                            *)
(***************************************************************************)
EXTENDS Integers, Sequences, FiniteSets, TLC

Null == "null"
Undefined == "undefined"

\* JavaScript truthiness of the values that occur: null, undefined and the
\* empty string are falsy, every other string of the model is truthy.
Truthy(v) == v \notin {Null, Undefined, ""}

\* a || b
Or(a, b) == IF Truthy(a) THEN a ELSE b

SAMPLE_ASTEROIDS ==
  <<
     [ id |-> "99942",
       name |-> "99942 Apophis",
       designation |-> "99942 Apophis",
       diameter_km |-> "0.340",
       absolute_magnitude_h |-> "19.7",
       is_potentially_hazardous |-> TRUE,
       discovery_date |-> "2004-06-19",
       discoverer |-> "K. A. Williams / R. S. McMillan (LINEAR)",
       summary |-> "Apophis is a near-Earth asteroid known for its close approach in April 2029; modern orbit determinations rule out impacts for the foreseeable future.",
       notable_events |-> << [date |-> "2004-06-19", event |-> "Discovery (LINEAR)"], [date |-> "2029-04-13", event |-> "Very close Earth approach (inside geostationary orbit distance)"] >> ],
     [ id |-> "152830",
       name |-> "152830 Dinkinesh",
       designation |-> "152830 Dinkinesh & Selam",
       diameter_km |-> "0.1",
       absolute_magnitude_h |-> "21.5",
       is_potentially_hazardous |-> FALSE,
       discovery_date |-> "2006-08-27",
       discoverer |-> "Spacewatch",
       summary |-> "Dinkinesh is a small main-belt asteroid visited by NASA's Lucy mission; it has a small companion named Selam.",
       notable_events |-> << [date |-> "2023-10-XX", event |-> "Lucy flyby (imaging and characterization)"] >> ],
     [ id |-> "25143",
       name |-> "25143 Itokawa",
       designation |-> "25143 Itokawa",
       diameter_km |-> "0.535",
       absolute_magnitude_h |-> "19.2",
       is_potentially_hazardous |-> FALSE,
       discovery_date |-> "1998-09-26",
       discoverer |-> "H. Abe",
       summary |-> "Itokawa is a rubble-pile asteroid visited by JAXA's Hayabusa mission; samples returned to Earth in 2010.",
       notable_events |-> << [date |-> "1998-09-26", event |-> "Discovery (H. Abe)"], [date |-> "2005-09-12", event |-> "Hayabusa arrival"], [date |-> "2010-06-13", event |-> "Sample return to Earth"] >> ],
     [ id |-> "16",
       name |-> "16 Psyche",
       designation |-> "16 Psyche",
       diameter_km |-> "226",
       absolute_magnitude_h |-> "6.2",
       is_potentially_hazardous |-> FALSE,
       discovery_date |-> "1852-03-17",
       discoverer |-> "Annibale de Gasparis",
       summary |-> "Psyche is a large, metal-rich asteroid and target of NASA's Psyche mission to study planetary cores and differentiation.",
       notable_events |-> << [date |-> "2020-10-13", event |-> "Psyche mission launch (target selected earlier)"] >> ],
     [ id |-> "2024YR4",
       name |-> "2024 YR4",
       designation |-> "2024 YR4",
       diameter_km |-> Null,
       absolute_magnitude_h |-> Null,
       is_potentially_hazardous |-> FALSE,
       discovery_date |-> "2024-12-XX",
       discoverer |-> "Survey",
       summary |-> "Recently-designated near-Earth object - check JPL SBDB for latest parameters.",
       notable_events |-> << [date |-> "2024-12-01", event |-> "Discovery (survey)"] >> ],
     [ id |-> "52246",
       name |-> "52246 Donaldjohanson",
       designation |-> "52246 Donaldjohanson",
       diameter_km |-> "0.005",
       absolute_magnitude_h |-> "18.9",
       is_potentially_hazardous |-> FALSE,
       discovery_date |-> "1987-10-07",
       discoverer |-> "Observatory",
       summary |-> "Main-belt asteroid named after paleoanthropologist Donald Johanson.",
       notable_events |-> << [date |-> "1987-10-07", event |-> "Discovery"] >> ],
     [ id |-> "Didymos",
       name |-> "65803 Didymos & Dimorphos",
       designation |-> "65803 Didymos",
       diameter_km |-> "0.780",
       absolute_magnitude_h |-> "18.3",
       is_potentially_hazardous |-> FALSE,
       discovery_date |-> "1996-04-11",
       discoverer |-> "ROAST survey",
       summary |-> "Binary near-Earth system; Dimorphos was the target of NASA's DART impact demonstration in 2022.",
       notable_events |-> << [date |-> "1996-04-11", event |-> "Discovery of Didymos"], [date |-> "2022-09-26", event |-> "DART kinetic impact on Dimorphos"] >> ],
     [ id |-> "243",
       name |-> "243 Ida & Dactyl",
       designation |-> "243 Ida",
       diameter_km |-> "31.8",
       absolute_magnitude_h |-> "10.5",
       is_potentially_hazardous |-> FALSE,
       discovery_date |-> "1884-09-29",
       discoverer |-> "J. Palisa",
       summary |-> "Ida is a main-belt asteroid and host to Dactyl, the first discovered asteroid moon (discovered in Galileo images).",
       notable_events |-> << [date |-> "1993-08-28", event |-> "Galileo imaging and discovery of moon Dactyl"] >> ],
     [ id |-> "433",
       name |-> "433 Eros",
       designation |-> "433 Eros",
       diameter_km |-> "16.84",
       absolute_magnitude_h |-> "10.4",
       is_potentially_hazardous |-> FALSE,
       discovery_date |-> "1898-08-13",
       discoverer |-> "G. Witt",
       summary |-> "Visited by NASA's NEAR Shoemaker mission which mapped Eros and landed in 2001.",
       notable_events |-> << [date |-> "1999-02-14", event |-> "NEAR Shoemaker arrival & mapping (1999-2001)"] >> ],
     [ id |-> "4",
       name |-> "4 Vesta",
       designation |-> "4 Vesta",
       diameter_km |-> "525.4",
       absolute_magnitude_h |-> "3.2",
       is_potentially_hazardous |-> FALSE,
       discovery_date |-> "1807-03-29",
       discoverer |-> "H. Olbers",
       summary |-> "One of the largest objects in the asteroid belt; Dawn mission mapped its geology and linked HED meteorites to Vesta.",
       notable_events |-> << [date |-> "2011-07-16", event |-> "Dawn orbit & mapping (2011-2012)"] >> ]
  >>

(***************************************************************************)
(* Strings: trim, toLowerCase, includes, as String.prototype defines them  *)
(* on the characters that occur (ASCII letters, digits, space, tab).       *)
(***************************************************************************)
Upper == <<"A","B","C","D","E","F","G","H","I","J","K","L","M",
           "N","O","P","Q","R","S","T","U","V","W","X","Y","Z">>
Lower == <<"a","b","c","d","e","f","g","h","i","j","k","l","m",
           "n","o","p","q","r","s","t","u","v","w","x","y","z">>
WhiteSpace == {" ", "\t"}

CharAt(s, i) == SubSeq(s, i, i)

LowerChar(c) ==
  IF \E k \in 1..26 : Upper[k] = c
  THEN Lower[CHOOSE k \in 1..26 : Upper[k] = c]
  ELSE c

RECURSIVE toLowerCase(_)
toLowerCase(s) ==
  IF Len(s) = 0 THEN ""
  ELSE LowerChar(CharAt(s, 1)) \o toLowerCase(SubSeq(s, 2, Len(s)))

RECURSIVE trimStart(_)
trimStart(s) ==
  IF Len(s) > 0 /\ CharAt(s, 1) \in WhiteSpace
  THEN trimStart(SubSeq(s, 2, Len(s)))
  ELSE s

RECURSIVE trimEnd(_)
trimEnd(s) ==
  IF Len(s) > 0 /\ CharAt(s, Len(s)) \in WhiteSpace
  THEN trimEnd(SubSeq(s, 1, Len(s) - 1))
  ELSE s

trim(s) == trimEnd(trimStart(s))

\* s.includes(q)
includes(s, q) ==
  \E i \in 1..(Len(s) - Len(q) + 1) : SubSeq(s, i, i + Len(q) - 1) = q

(***************************************************************************)
(* Bounds of the model and the inputs the environment may supply.          *)
(***************************************************************************)
\* clicks on list entries in one run
MaxClicks == 2
\* length of the short near_earth_objects lists the browse endpoint returns
MaxFetched == 2
\* .slice(0, 12)
BrowseLimit == 12

\* obj.k of an object that may lack the property
Get(obj, k) == IF k \in DOMAIN obj THEN obj[k] ELSE Undefined

\* Objects of near_earth_objects as the browse endpoint may send them.  The
\* first two reuse seed ids with different data, the third is the entry the
\* endpoint really lists for Eros (a fresh id, the same name), the fourth
\* has neither designation, diameter, observation date nor close approach.
RawNeos ==
  { [ id |-> "433", name |-> "433 Eros (A898 PA)", designation |-> "433",
      estimated_diameter_max_m |-> "48000", absolute_magnitude_h |-> "10.38",
      is_potentially_hazardous_asteroid |-> FALSE,
      first_observation_date |-> "1893-10-29",
      close_approach_date |-> "1900-12-27" ],
    [ id |-> "99942", name |-> "99942 Apophis (2004 MN4)", designation |-> "99942",
      estimated_diameter_max_m |-> "340", absolute_magnitude_h |-> "19.09",
      is_potentially_hazardous_asteroid |-> TRUE,
      first_observation_date |-> "2004-03-15",
      close_approach_date |-> "2029-04-13" ],
    [ id |-> "2000433", name |-> "433 Eros (A898 PA)", designation |-> "433",
      estimated_diameter_max_m |-> "48000", absolute_magnitude_h |-> "10.38",
      is_potentially_hazardous_asteroid |-> FALSE,
      first_observation_date |-> "1893-10-29",
      close_approach_date |-> "1900-12-27" ],
    [ id |-> "2000719", name |-> "719 Albert (A911 TB)",
      absolute_magnitude_h |-> "15.59",
      is_potentially_hazardous_asteroid |-> FALSE ] }

\* A list longer than BrowseLimit, of distinct fresh ids.
LongSuffix == <<"01","02","03","04","05","06","07","08","09","10","11","12","13">>
LongList ==
  [ i \in 1..Len(LongSuffix) |->
      [ id |-> "30000" \o LongSuffix[i], name |-> "(2001 AA" \o LongSuffix[i] \o ")",
        designation |-> "2001 AA" \o LongSuffix[i],
        absolute_magnitude_h |-> "20.1",
        is_potentially_hazardous_asteroid |-> FALSE ] ]

ShortLists == UNION { [1..n -> RawNeos] : n \in 0..MaxFetched }

\* What the browse request can end in: fetch rejects, a non-2xx status,
\* resp.json() rejects, the JSON value null, an object without
\* near_earth_objects, or an object with a list.
NeoResponses ==
  { [kind |-> k, neos |-> << >>] : k \in {"reject", "status", "parse", "null", "nolist"} }
  \cup { [kind |-> "json", neos |-> l] : l \in ShortLists \cup {LongList} }

\* What the SBDB request can end in; json is the parsed body.
DetailJsons ==
  { [signature |-> "1.0"],
    [signature |-> "1.0", phys |-> [diameter |-> "0.5"]],
    [signature |-> "1.0", phys |-> [diameter |-> "", H |-> "9.9"]],
    [signature |-> "1.0", phys |-> [diameter |-> "17.0", H |-> "10.31", albedo |-> "0.25"]] }

DetailResponses ==
  { [kind |-> k, json |-> << >>] : k \in {"reject", "status", "parse", "null"} }
  \cup { [kind |-> "json", json |-> j] : j \in DetailJsons }

\* The texts the user types into the search box.
\* "eros" in every letter case
ErosQueries ==
  { e \o r \o o \o s : e \in {"e", "E"}, r \in {"r", "R"}, o \in {"o", "O"}, s \in {"s", "S"} }

Queries ==
  ErosQueries \cup {"", " ", " \t ", " ErOs\t", "433", "4YR", "selam", "Dimorphos ", "a8", "zzz"}

(***************************************************************************)
(* fetchNeos: the mapping of a listed object to a catalog entry, and the   *)
(* merge with the seed list.                                               *)
(***************************************************************************)
\* estimated_diameter_max / 1000 on the values that occur
DivideBy1000(m) ==
  CASE m = "48000" -> "48"
    [] m = "340" -> "0.34"

NeoItem(n) ==
  [ id |-> Get(n, "id"),
    name |-> Get(n, "name"),
    designation |-> Or(Get(n, "designation"), Get(n, "name")),
    diameter_km |->
      IF Get(n, "estimated_diameter_max_m") \notin {Null, Undefined}
      THEN DivideBy1000(n.estimated_diameter_max_m) ELSE Null,
    absolute_magnitude_h |-> Get(n, "absolute_magnitude_h"),
    is_potentially_hazardous |-> n.is_potentially_hazardous_asteroid,
    discovery_date |-> Or(Get(n, "first_observation_date"), Null),
    discoverer |-> Null,
    summary |->
      IF "close_approach_date" \in DOMAIN n
      THEN "Closest approach (sample): " \o n.close_approach_date
      ELSE "Near-Earth object",
    notable_events |-> << >> ]

\* The try block of fetchNeos reaches the mapping: the fetch resolved with
\* resp.ok and a body that parsed to an object.  json.near_earth_objects || []
\* is the empty list when the property is missing.
NeoSucceeds(resp) == resp.kind \in {"json", "nolist"}

\* arr.slice(0, n)
Slice(arr, n) == SubSeq(arr, 1, IF Len(arr) < n THEN Len(arr) ELSE n)

Items(neos) == [ i \in 1..Len(Slice(neos, BrowseLimit)) |-> NeoItem(neos[i]) ]

\* A refresh that installs its result even when it brought nothing.
HasItemsUnchecked(items) == TRUE

\* if (items.length)
HasItems(items) == Len(items) > 0

\* SAMPLE_ASTEROIDS.find((s) => s.id === it.id) is truthy
InSample(it) == \E i \in 1..Len(SAMPLE_ASTEROIDS) : SAMPLE_ASTEROIDS[i].id = it.id

NotInSample(it) == ~InSample(it)

\* A merge that appends every fetched item.
MergedUnfiltered(items) == SAMPLE_ASTEROIDS \o items

Merged(items) == SAMPLE_ASTEROIDS \o SelectSeq(items, NotInSample)

\* merged.find((m) => m.id === prev.id) || merged[0]
KeepSelection(merged, prev) ==
  IF \E i \in 1..Len(merged) : merged[i].id = prev.id
  THEN merged[CHOOSE i \in 1..Len(merged) :
                /\ merged[i].id = prev.id
                /\ \A j \in 1..(i - 1) : merged[j].id # prev.id]
  ELSE merged[1]

(***************************************************************************)
(* fetchSBDBDetails: the overlay of the SBDB body on the clicked entry.    *)
(***************************************************************************)
\* json.phys || {}
Phys(json) == IF "phys" \in DOMAIN json THEN json.phys ELSE << >>

\* phys.diameter || obj.diameter_km
DetailDiameter(obj, phys) == Or(Get(phys, "diameter"), Get(obj, "diameter_km"))

\* An overlay without the fallback to the entry's own magnitude.
DetailMagnitudeFromBody(obj, phys) == Get(phys, "H")

\* phys.H || obj.absolute_magnitude_h
DetailMagnitude(obj, phys) == Or(Get(phys, "H"), Get(obj, "absolute_magnitude_h"))

\* (phys.albedo ? `${obj.name} - albedo: ${phys.albedo}` : obj.summary) || obj.summary
DetailSummary(obj, phys) ==
  Or(IF Truthy(Get(phys, "albedo"))
     THEN Get(obj, "name") \o " - albedo: " \o phys.albedo
     ELSE Get(obj, "summary"),
     Get(obj, "summary"))

\* An overlay that takes the events from the body, which has none.
DetailEventsFromBody(obj) == << >>

\* obj.notable_events || []  (an array, even an empty one, is truthy)
DetailEvents(obj) ==
  IF "notable_events" \in DOMAIN obj THEN obj.notable_events ELSE << >>

\* The properties the object literal names after the spread of obj.
DetailKeys == {"diameter_km", "absolute_magnitude_h", "summary", "notable_events", "sbdb_raw"}

\* { ...obj, diameter_km: ..., absolute_magnitude_h: ..., summary: ...,
\*   notable_events: ..., sbdb_raw: json }
MergedDetail(obj, json) ==
  [ k \in DOMAIN obj \cup DetailKeys |->
      CASE k = "diameter_km" -> DetailDiameter(obj, Phys(json))
        [] k = "absolute_magnitude_h" -> DetailMagnitude(obj, Phys(json))
        [] k = "summary" -> DetailSummary(obj, Phys(json))
        [] k = "notable_events" -> DetailEvents(obj)
        [] k = "sbdb_raw" -> json
        [] OTHER -> obj[k] ]

\* fetchSBDBDetails without its "if (!res.ok) throw".
DetailSucceedsUnchecked(resp) == resp.kind \in {"json", "status"}

\* The try block runs to setSelected(merged) only for a parsed, non-null body.
DetailSucceeds(resp) == resp.kind = "json"

\* The value fetchSBDBDetails hands to setSelected.
DetailSelected(obj, resp) ==
  IF DetailSucceeds(resp) THEN MergedDetail(obj, resp.json) ELSE obj

(***************************************************************************)
(* The filtered list (useMemo over asteroids and query).                   *)
(***************************************************************************)
\* A filter that compares the entry's texts as they are written.
MatchesCaseSensitive(a, q) ==
  \/ Truthy(a.name) /\ includes(a.name, q)
  \/ Truthy(a.designation) /\ includes(a.designation, q)
  \/ Truthy(a.id) /\ includes(a.id, q)

Matches(a, q) ==
  \/ Truthy(a.name) /\ includes(toLowerCase(a.name), q)
  \/ Truthy(a.designation) /\ includes(toLowerCase(a.designation), q)
  \/ Truthy(a.id) /\ includes(toLowerCase(a.id), q)

\* A filter that does not trim the query.
FilteredUntrimmed(list, qry) ==
  LET q == toLowerCase(qry)
      Keep(a) == Matches(a, q)
  IN IF q = "" THEN list ELSE SelectSeq(list, Keep)

Filtered(list, qry) ==
  LET q == toLowerCase(trim(qry))
      Keep(a) == Matches(a, q)
  IN IF q = "" THEN list ELSE SelectSeq(list, Keep)

(***************************************************************************)
(* hashCode.  TLC's integers are 32-bit signed, so a JavaScript integer is *)
(* held as <<hi, lo>> with value hi * 65536 + lo and lo in 0..65535: hi is *)
(* in 0..65535 for an unsigned 32-bit value and in -32768..32767 for a     *)
(* signed one.                                                             *)
(***************************************************************************)
\* length of the strings hashed
MaxHashLen == 3

HashAlphabet == {"a", "E", " ", "4"}

RECURSIVE StringsOfLen(_)
StringsOfLen(n) ==
  IF n = 0 THEN {""}
  ELSE { c \o s : c \in HashAlphabet, s \in StringsOfLen(n - 1) }

HashInputs == UNION { StringsOfLen(n) : n \in 0..MaxHashLen }

Digits == <<"0","1","2","3","4","5","6","7","8","9">>

\* str.charCodeAt(i) of a one-character string
charCode(c) ==
  IF \E k \in 1..26 : Upper[k] = c THEN 64 + (CHOOSE k \in 1..26 : Upper[k] = c)
  ELSE IF \E k \in 1..26 : Lower[k] = c THEN 96 + (CHOOSE k \in 1..26 : Lower[k] = c)
  ELSE IF \E k \in 1..10 : Digits[k] = c THEN 47 + (CHOOSE k \in 1..10 : Digits[k] = c)
  ELSE IF c = " " THEN 32
  ELSE 9

\* x >>> 0
ToUint32(x) == <<x[1] % 65536, x[2]>>

\* ToInt32(x), the operand conversion of ^ and Math.imul
ToInt32(x) == <<((x[1] + 32768) % 65536) - 32768, x[2]>>

\* bitwise exclusive or of two numbers in 0..65535
RECURSIVE Xor16(_, _)
Xor16(a, b) ==
  IF a = 0 THEN b
  ELSE IF b = 0 THEN a
  ELSE ((a + b) % 2) + 2 * Xor16(a \div 2, b \div 2)

\* h ^ c for a character code c (0..65535): a signed 32-bit result
XorCode(h, c) == ToInt32(<<ToUint32(h)[1], Xor16(h[2], c)>>)

\* 16777619 = 256 * 65536 + 403
FnvPrimeHi == 256
FnvPrimeLo == 403

\* Math.imul(h, 16777619): the low 32 bits of the product, signed
ImulPrime(h) ==
  LET u == ToUint32(h)
      low == u[2] * FnvPrimeLo
      high == (low \div 65536) + u[1] * FnvPrimeLo + u[2] * FnvPrimeHi
  IN ToInt32(<<high % 65536, low % 65536>>)

\* 2166136261 >>> 0  (0x811C9DC5)
FnvOffset == <<33052, 40389>>

\* One turn of the loop of hashCode.
HashTurn(h, c) == ImulPrime(XorCode(h, c))

\* A return without the conversion to unsigned.
HashResultSigned(h) == h

\* return h >>> 0
HashResult(h) == ToUint32(h)

RECURSIVE HashLoop(_, _)
HashLoop(h, str) ==
  IF Len(str) = 0 THEN h
  ELSE HashLoop(HashTurn(h, charCode(CharAt(str, 1))), SubSeq(str, 2, Len(str)))

hashCode(str) == HashResult(HashLoop(FnvOffset, str))

(***************************************************************************)
(* The bumpy sphere: mulberry32 and createBumpyGeometry.  Numbers that the *)
(* code passes through >>>, ^, | and Math.imul are held modulo 2^32 as     *)
(* <<high, low>> halves in 0..65535.  Fractions are held in fixed point:   *)
(* coordinates in millionths, noise, intensity and weight in thousandths   *)
(* (rounded down), a displacement in units of 10^-9.                       *)
(***************************************************************************)
Abs(x) == IF x < 0 THEN -x ELSE x

Max(a, b) == IF a > b THEN a ELSE b

Min(a, b) == IF a < b THEN a ELSE b

\* the number n, below 2^31, modulo 2^32
Word(n) == <<n \div 65536, n % 65536>>

\* a + b modulo 2^32
Add32(a, b) ==
  LET low == a[2] + b[2]
  IN <<(a[1] + b[1] + (low \div 65536)) % 65536, low % 65536>>

\* a ^ b
Xor32(a, b) == <<Xor16(a[1], b[1]), Xor16(a[2], b[2])>>

\* bitwise or of two numbers in 0..65535
RECURSIVE Or16(_, _)
Or16(a, b) ==
  IF a = 0 THEN b
  ELSE IF b = 0 THEN a
  ELSE (IF a % 2 = 1 \/ b % 2 = 1 THEN 1 ELSE 0) + 2 * Or16(a \div 2, b \div 2)

\* c | a for a constant c below 65536
OrLow(c, a) == <<a[1], Or16(c, a[2])>>

\* a >>> n for n in 1..15
Shr32(a, n) ==
  <<a[1] \div (2 ^ n), ((a[1] % (2 ^ n)) * (2 ^ (16 - n))) + (a[2] \div (2 ^ n))>>

\* the product of two numbers in 0..65535, as halves
Mul16(a, b) ==
  LET p == (a \div 256) * b
      q == (a % 256) * b
      low == ((p % 256) * 256) + q
  IN <<((p \div 256) + (low \div 65536)) % 65536, low % 65536>>

\* Math.imul(a, b): the low 32 bits of the product
Imul(a, b) ==
  LET low == Mul16(a[2], b[2])
  IN <<(low[1] + Mul16(a[1], b[2])[2] + Mul16(a[2], b[1])[2]) % 65536, low[2]>>

\* 0x6d2b79f5
MulberryStep == <<27947, 31221>>

\* mulberry32(seed): the t of the closure it returns, let t = seed >>> 0
mulberry32(seed) == ToUint32(seed)

\* A call of the closure: t += 0x6d2b79f5
MulberryT(t) == Add32(t, MulberryStep)

\* A call of the closure: the numerator of the value returned, over 2^32,
\* computed from the t just increased.
MulberryValue(t) ==
  LET r1 == Imul(Xor32(t, Shr32(t, 15)), OrLow(1, t))
      r2 == Xor32(r1, Add32(r1, Imul(Xor32(r1, Shr32(r1, 7)), OrLow(61, r1))))
  IN Xor32(r2, Shr32(r2, 14))

\* localRng() * 2 - 1 for the numerator u, in thousandths rounded down
Noise(u) == (((u[1] * 2000) + ((u[2] * 2000) \div 65536)) \div 65536) - 1000

\* 0.6 + 0.4 * Math.abs(nx + ny + nz), in thousandths rounded down
Weight(normal) == 600 + ((400 * Abs(normal[1] + normal[2] + normal[3])) \div 1000000)

\* Vertices of new THREE.SphereGeometry(1, 128, 64), in the order of their
\* index: index iy * 129 + ix of the grid, position and normal as stored in
\* the Float32 attributes.  Two at the north pole, one at the south pole, the
\* two ends of the seam on the equator, the axis, and vertices near the
\* diagonals, 3014 and 5400 opposite each other.
SphereVertices == <<
  [index |-> 0, pos |-> <<0, 1000000, 0>>, normal |-> <<0, 1000000, 0>>],
  [index |-> 1, pos |-> <<0, 1000000, 0>>, normal |-> <<0, 1000000, 0>>],
  [index |-> 3014, pos |-> <<607082, 427555, 669812>>, normal |-> <<607082, 427555, 669812>>],
  [index |-> 3016, pos |-> <<669812, 427555, 607082>>, normal |-> <<669812, 427555, 607082>>],
  [index |-> 3143, pos |-> <<620440, 382683, 684550>>, normal |-> <<620440, 382683, 684550>>],
  [index |-> 4128, pos |-> <<-1000000, 0, 0>>, normal |-> <<-1000000, 0, 0>>],
  [index |-> 4160, pos |-> <<0, 0, 1000000>>, normal |-> <<0, 0, 1000000>>],
  [index |-> 4256, pos |-> <<-1000000, 0, 0>>, normal |-> <<-1000000, 0, 0>>],
  [index |-> 5400, pos |-> <<-607082, -427555, -669812>>, normal |-> <<-607082, -427555, -669812>>],
  [index |-> 5403, pos |-> <<-698793, -427555, -573485>>, normal |-> <<-698793, -427555, -573485>>],
  [index |-> 8256, pos |-> <<0, -1000000, 0>>, normal |-> <<0, -1000000, 0>>]
>>

\* Math.floor(Math.abs(Math.sin((x * 73856093) ^ (y * 19349663) ^
\* (z * 83492791))) * 100000) for the positions of SphereVertices, tabulated
\* by position from the Float32 coordinates.
PositionHashes == {
  [pos |-> <<0, 1000000, 0>>, hash |-> 8542],
  [pos |-> <<607082, 427555, 669812>>, hash |-> 99476],
  [pos |-> <<669812, 427555, 607082>>, hash |-> 25782],
  [pos |-> <<620440, 382683, 684550>>, hash |-> 60203],
  [pos |-> <<-1000000, 0, 0>>, hash |-> 98411],
  [pos |-> <<0, 0, 1000000>>, hash |-> 58682],
  [pos |-> <<-607082, -427555, -669812>>, hash |-> 99476],
  [pos |-> <<-698793, -427555, -573485>>, hash |-> 53761],
  [pos |-> <<0, -1000000, 0>>, hash |-> 8542]
}

\* Math.floor(hash) of a vertex
FloorHash(pos) == (CHOOSE e \in PositionHashes : e.pos = pos).hash

\* A sub-seed taken from the index of the vertex.
LocalSeedOfIndex(seed, v) == Add32(Word(v.index), seed)

\* Math.floor(hash) + seed, the argument of mulberry32 for localRng
LocalSeed(seed, v) == Add32(Word(FloorHash(v.pos)), seed)

\* noise * intensity * (0.6 + 0.4 * Math.abs(nx + ny + nz)), which is
\* displacement - 1, for vertex v
Displacement(seed, intensity, v) ==
  Noise(MulberryValue(MulberryT(mulberry32(LocalSeed(seed, v))))) * intensity
    * Weight(v.normal)

\* Math.max(0.02, Math.min(0.12, 0.06)), in thousandths
IntensityMin == 20
IntensityMax == 120
IntensityArg == 60

Intensity == Max(IntensityMin, Min(IntensityMax, IntensityArg))

\* calls of createBumpyGeometry in one run
MaxGeometries == 3

\* Names of catalog entries that AsteroidMesh is given as name.
ShapeNames == { SAMPLE_ASTEROIDS[i].name : i \in {1, 4, 9, 10} }

(***************************************************************************)
(* State.                                                                  *)
(***************************************************************************)
VARIABLES
  asteroids,    \* useState(SAMPLE_ASTEROIDS)
  selected,     \* useState(SAMPLE_ASTEROIDS[0])
  loading,      \* useState(false)
  query,        \* useState("")
  neo,          \* fetchNeos: "init" (effect not run), "pending", then how it
                \* ended: "merged", "empty" (no items) or "caught"
  pending,      \* fetchSBDBDetails calls awaiting their response: [seq, obj]
  clicks,       \* number of onSelect calls so far
  lastClicked,  \* history: seq and id of the latest onSelect, NoRequest before
  lastSettled,  \* history: seq and id of the latest settled detail fetch,
                \* and whether it ended in the catch block
  hashStr,      \* hashCode: its argument str
  hashI,        \* hashCode: the loop index i
  hashH,        \* hashCode: h
  hashRet,      \* hashCode: the value returned, NotReturned before
  textureUrl,   \* useState(null): 0 for null, else the number of the object URL
  mapTex,       \* AsteroidMesh useState(null): 0 for null, else the texture
                \* loaded from the URL of that number
  texLoads,     \* loader.load calls awaiting a callback: [url, active], active
                \* being the flag of the effect run that started the load
  texUploads,   \* number of object URLs created so far
  texStale,     \* history: a callback has fired whose effect was cleaned up
  shapePc,      \* AsteroidMesh useMemo: "idle", "seed" while hashCode(name) is
                \* evaluated, "loop" inside createBumpyGeometry
  shapeName,    \* AsteroidMesh: the name the geometry was last made for
  shapeSeed,    \* createBumpyGeometry: seed
  shapeI,       \* createBumpyGeometry: the loop index i
  shapePos,     \* createBumpyGeometry: displacement - 1 of the vertices
                \* displaced so far, in the order of SphereVertices
  shapeGeoms    \* history: the geometries returned so far, with their inputs

hashVars == <<hashStr, hashI, hashH, hashRet>>

texVars == <<textureUrl, mapTex, texLoads, texUploads, texStale>>

shapeVars == <<shapePc, shapeName, shapeSeed, shapeI, shapePos, shapeGeoms>>

uiVars == <<asteroids, selected, loading, query, neo, pending, clicks,
            lastClicked, lastSettled>>

vars == <<asteroids, selected, loading, query, neo, pending, clicks,
          lastClicked, lastSettled, hashStr, hashI, hashH, hashRet,
          textureUrl, mapTex, texLoads, texUploads, texStale,
          shapePc, shapeName, shapeSeed, shapeI, shapePos, shapeGeoms>>

NotReturned == <<-1, -1>>

NoRequest == [seq |-> 0, id |-> ""]
NoneSettled == [seq |-> 0, id |-> "", caught |-> FALSE]

filtered == Filtered(asteroids, query)

\* No geometry made yet.
ShapeInit ==
  /\ shapePc = "idle"
  /\ shapeName = ""
  /\ shapeSeed = <<0, 0>>
  /\ shapeI = 0
  /\ shapePos = <<>>
  /\ shapeGeoms = <<>>

\* No texture URL, no texture, no load under way.
TextureInit ==
  /\ textureUrl = 0
  /\ mapTex = 0
  /\ texLoads = {}
  /\ texUploads = 0
  /\ texStale = FALSE

Init ==
  /\ asteroids = SAMPLE_ASTEROIDS
  /\ selected = SAMPLE_ASTEROIDS[1]
  /\ loading = FALSE
  /\ query = ""
  /\ neo = "init"
  /\ pending = {}
  /\ clicks = 0
  /\ lastClicked = NoRequest
  /\ lastSettled = NoneSettled
  /\ hashStr = ""
  /\ hashI = 0
  /\ hashH = FnvOffset
  /\ hashRet = NotReturned
  /\ TextureInit
  /\ ShapeInit

\* The mount effect: fetchNeos runs up to its first await.
FetchNeosStart ==
  /\ neo = "init"
  /\ neo' = "pending"
  /\ loading' = TRUE
  /\ UNCHANGED <<asteroids, selected, query, pending, clicks, lastClicked, lastSettled, hashVars, texVars, shapeVars>>

\* The rest of fetchNeos once the request has settled.  Nothing is written
\* between the await of fetch and the await of resp.json().
FetchNeosSettle(resp) ==
  /\ neo = "pending"
  /\ IF NeoSucceeds(resp)
     THEN IF HasItems(Items(resp.neos))
          THEN /\ asteroids' = Merged(Items(resp.neos))
               /\ selected' = KeepSelection(Merged(Items(resp.neos)), selected)
               /\ neo' = "merged"
          ELSE /\ neo' = "empty"
               /\ UNCHANGED <<asteroids, selected>>
     ELSE /\ neo' = "caught"
          /\ UNCHANGED <<asteroids, selected>>
  /\ loading' = FALSE
  /\ UNCHANGED <<query, pending, clicks, lastClicked, lastSettled, hashVars, texVars, shapeVars>>

\* onClick of a list button: onSelect(a) runs fetchSBDBDetails(a) up to its await.
OnSelect(a) ==
  /\ clicks < MaxClicks
  /\ clicks' = clicks + 1
  /\ pending' = pending \cup {[seq |-> clicks + 1, obj |-> a]}
  /\ loading' = TRUE
  /\ lastClicked' = [seq |-> clicks + 1, id |-> a.id]
  /\ UNCHANGED <<asteroids, selected, query, neo, lastSettled, hashVars, texVars, shapeVars>>

\* A request-generation guard: a response is dropped when a later click exists.
GuardedSettledSelection(r, resp) ==
  IF r.seq = clicks THEN DetailSelected(r.obj, resp) ELSE selected

\* setSelected of request r is applied whatever has been clicked since.
SettledSelection(r, resp) == DetailSelected(r.obj, resp)

\* The rest of fetchSBDBDetails once request r has settled with resp.
DetailSettle(r, resp) ==
  /\ r \in pending
  /\ pending' = pending \ {r}
  /\ selected' = SettledSelection(r, resp)
  /\ loading' = FALSE
  /\ lastSettled' = [seq |-> r.seq, id |-> r.obj.id, caught |-> ~DetailSucceeds(resp)]
  /\ UNCHANGED <<asteroids, query, neo, clicks, lastClicked, hashVars, texVars, shapeVars>>

\* onChange of the search box.
SetQuery(q) ==
  /\ query' = q
  /\ UNCHANGED <<asteroids, selected, loading, neo, pending, clicks, lastClicked, lastSettled, hashVars, texVars, shapeVars>>

\* hashCode(str) is entered: let h = 2166136261 >>> 0, i = 0.
InitHash ==
  /\ asteroids = SAMPLE_ASTEROIDS
  /\ selected = SAMPLE_ASTEROIDS[1]
  /\ loading = FALSE
  /\ query = ""
  /\ neo = "init"
  /\ pending = {}
  /\ clicks = 0
  /\ lastClicked = NoRequest
  /\ lastSettled = NoneSettled
  /\ hashStr \in HashInputs
  /\ hashI = 0
  /\ hashH = ToUint32(FnvOffset)
  /\ hashRet = NotReturned
  /\ TextureInit
  /\ ShapeInit

\* One turn of the loop: h ^= str.charCodeAt(i); h = Math.imul(h, 16777619); i++
HashStep ==
  /\ hashRet = NotReturned
  /\ hashI < Len(hashStr)
  /\ hashH' = HashTurn(hashH, charCode(CharAt(hashStr, hashI + 1)))
  /\ hashI' = hashI + 1
  /\ UNCHANGED <<hashStr, hashRet, uiVars, texVars, shapeVars>>

\* The loop is over: return h >>> 0.
HashReturn ==
  /\ hashRet = NotReturned
  /\ hashI >= Len(hashStr)
  /\ hashRet' = HashResult(hashH)
  /\ UNCHANGED <<hashStr, hashI, hashH, uiVars, texVars, shapeVars>>

NextHash == HashStep \/ HashReturn

SpecHash == InitHash /\ [][NextHash]_vars

(***************************************************************************)
(* The surface texture: textureUrl of AsteroidExplorer and the effect of   *)
(* AsteroidMesh that loads it.  The state after Init is the one after the  *)
(* first run of the effect, which finds no URL and sets no texture.  A     *)
(* change of textureUrl and the cleanup and re-run of the effect that it   *)
(* causes are one step.                                                    *)
(***************************************************************************)
\* object URLs created in one run
MaxUploads == 4

\* The cleanup of the effect: active = false in the closure of every load
\* the effect has started.
CleanedUp(loads) == { [url |-> l.url, active |-> FALSE] : l \in loads }

\* A callback that acts although its effect was cleaned up.
CallbackActsAlways(l) == TRUE

\* if (!active) return;
CallbackActs(l) == l.active

\* onTextureUpload with a file chosen: a new object URL becomes textureUrl,
\* the effect is cleaned up and runs again, starting a load.
OnTextureUpload ==
  /\ texUploads < MaxUploads
  /\ texUploads' = texUploads + 1
  /\ textureUrl' = texUploads + 1
  /\ texLoads' = CleanedUp(texLoads) \cup {[url |-> texUploads + 1, active |-> TRUE]}
  /\ UNCHANGED <<mapTex, texStale, uiVars, hashVars, shapeVars>>

\* Either Clear texture button while a URL is set: setTextureUrl(null), the
\* effect is cleaned up and runs again with no URL: setMapTex(null).
ClearTexture ==
  /\ textureUrl # 0
  /\ textureUrl' = 0
  /\ texLoads' = CleanedUp(texLoads)
  /\ mapTex' = 0
  /\ UNCHANGED <<texUploads, texStale, uiVars, hashVars, shapeVars>>

\* The onLoad callback of load l.
TextureLoaded(l) ==
  /\ l \in texLoads
  /\ texLoads' = texLoads \ {l}
  /\ mapTex' = IF CallbackActs(l) THEN l.url ELSE mapTex
  /\ texStale' = (texStale \/ ~l.active)
  /\ UNCHANGED <<textureUrl, texUploads, uiVars, hashVars, shapeVars>>

\* The onError callback of load l.
TextureFailed(l) ==
  /\ l \in texLoads
  /\ texLoads' = texLoads \ {l}
  /\ mapTex' = IF CallbackActs(l) THEN 0 ELSE mapTex
  /\ texStale' = (texStale \/ ~l.active)
  /\ UNCHANGED <<textureUrl, texUploads, uiVars, hashVars, shapeVars>>

NextTexture ==
  \/ OnTextureUpload
  \/ ClearTexture
  \/ \E l \in texLoads : TextureLoaded(l)
  \/ \E l \in texLoads : TextureFailed(l)

SpecTexture == Init /\ [][NextTexture]_vars

(***************************************************************************)
(* The geometry of AsteroidMesh: useMemo calls createBumpyGeometry at the  *)
(* first render and whenever name has changed.                             *)
(***************************************************************************)
\* The factory of useMemo runs for a new name: hashCode(name), the last
\* argument of the call, is entered.
UseMemo(name) ==
  /\ shapePc = "idle"
  /\ name # shapeName
  /\ Len(shapeGeoms) < MaxGeometries
  /\ shapePc' = "seed"
  /\ shapeName' = name
  /\ hashStr' = name
  /\ hashI' = 0
  /\ hashH' = ToUint32(FnvOffset)
  /\ hashRet' = NotReturned
  /\ UNCHANGED <<shapeSeed, shapeI, shapePos, shapeGeoms, uiVars, texVars>>

\* hashCode(name) takes a turn of its loop.
SeedStep == shapePc = "seed" /\ HashStep

\* hashCode(name) returns.
SeedReturn == shapePc = "seed" /\ HashReturn

\* createBumpyGeometry(1, 128, Math.max(0.02, Math.min(0.12, 0.06)),
\* hashCode(name)) is entered, up to the loop.
CreateBumpyGeometry ==
  /\ shapePc = "seed"
  /\ hashRet # NotReturned
  /\ shapePc' = "loop"
  /\ shapeSeed' = hashRet
  /\ shapeI' = 0
  /\ shapePos' = <<>>
  /\ UNCHANGED <<shapeName, shapeGeoms, uiVars, hashVars, texVars>>

\* One turn of the loop: vertex i is scaled by displacement.
DisplaceVertex ==
  /\ shapePc = "loop"
  /\ shapeI < Len(SphereVertices)
  /\ shapePos' = Append(shapePos,
                        Displacement(shapeSeed, Intensity, SphereVertices[shapeI + 1]))
  /\ shapeI' = shapeI + 1
  /\ UNCHANGED <<shapePc, shapeName, shapeSeed, shapeGeoms, uiVars, hashVars, texVars>>

\* The loop is over: return geom.
ReturnGeometry ==
  /\ shapePc = "loop"
  /\ shapeI = Len(SphereVertices)
  /\ shapeGeoms' = Append(shapeGeoms, [name |-> shapeName, seed |-> shapeSeed,
                                       intensity |-> Intensity, pos |-> shapePos])
  /\ shapePc' = "idle"
  /\ UNCHANGED <<shapeName, shapeSeed, shapeI, shapePos, uiVars, hashVars, texVars>>

NextShape ==
  \/ \E name \in ShapeNames : UseMemo(name)
  \/ SeedStep
  \/ SeedReturn
  \/ CreateBumpyGeometry
  \/ DisplaceVertex
  \/ ReturnGeometry

SpecShape == Init /\ [][NextShape]_vars

\* Catalog and selection.  The search box is left empty, which puts every
\* catalog entry in the list of buttons.
Next ==
  \/ FetchNeosStart
  \/ \E resp \in NeoResponses : FetchNeosSettle(resp)
  \/ \E i \in 1..Len(filtered) : OnSelect(filtered[i])
  \/ \E r \in pending : \E resp \in DetailResponses : DetailSettle(r, resp)

Spec == Init /\ [][Next]_vars

\* Catalog and search box.
NextSearch ==
  \/ FetchNeosStart
  \/ \E resp \in NeoResponses : FetchNeosSettle(resp)
  \/ \E q \in Queries : SetQuery(q)

SpecSearch == Init /\ [][NextSearch]_vars

(***************************************************************************)
(* Properties.                                                             *)
(***************************************************************************)
Ids(list) == { list[i].id : i \in 1..Len(list) }

Entries(list) == { list[i] : i \in 1..Len(list) }

\* The ways a request fails: the fetch rejects, the status is not 2xx, the
\* body is not JSON, the body is the JSON value null.
FailureKinds == {"reject", "status", "parse", "null"}

\* C1: a settled detail fetch decides the selection whatever was clicked after
\* it was started: once any detail fetch has settled, the selected entry has
\* the id of the entry of the fetch that settled last, so a response that
\* arrives after a newer click's response overwrites the newer selection.
C1_LateResponseWins ==
  lastSettled.seq > 0 => selected.id = lastSettled.id

\* A was clicked, then B; B's fetch settled, then A's: the selection is A.
C1_Witness ==
  /\ pending = {}
  /\ lastClicked.seq = 2
  /\ lastSettled.seq = 1
  /\ lastSettled.id # lastClicked.id
  /\ selected.id = lastSettled.id

\* C2 as stated: a body whose phys holds only a non-empty diameter changes
\* the diameter and leaves every other field and the set of fields as in E.
DiameterOnly(resp) ==
  /\ resp.kind = "json"
  /\ "phys" \in DOMAIN resp.json
  /\ DOMAIN resp.json.phys = {"diameter"}
  /\ resp.json.phys.diameter # ""

C2_Original ==
  [][ \A r \in pending \ pending' : \A resp \in DetailResponses :
        (DiameterOnly(resp) /\ DetailSettle(r, resp)) =>
          /\ selected'.diameter_km = resp.json.phys.diameter
          /\ DOMAIN selected' = DOMAIN r.obj
          /\ \A k \in DOMAIN r.obj \ {"diameter_km"} : selected'[k] = r.obj[k] ]_vars

\* C2 amended: the same, except that the selection gains one field, sbdb_raw,
\* holding the body.
C2_DiameterOnlyOverlay ==
  [][ \A r \in pending \ pending' : \A resp \in DetailResponses :
        (DiameterOnly(resp) /\ DetailSettle(r, resp)) =>
          /\ selected'.diameter_km = resp.json.phys.diameter
          /\ DOMAIN selected' = DOMAIN r.obj \cup {"sbdb_raw"}
          /\ selected'.sbdb_raw = resp.json
          /\ \A k \in DOMAIN r.obj \ {"diameter_km"} : selected'[k] = r.obj[k] ]_vars

C2_Witness ==
  /\ lastSettled.seq > 0
  /\ ~lastSettled.caught
  /\ "sbdb_raw" \in DOMAIN selected
  /\ "phys" \in DOMAIN selected.sbdb_raw
  /\ DOMAIN selected.sbdb_raw.phys = {"diameter"}
  /\ selected.diameter_km = selected.sbdb_raw.phys.diameter
  /\ selected.diameter_km # ""

\* C3: a successful refresh with a non-empty list all of whose ids are seed
\* ids installs the seed catalog itself: same entries, same order, no
\* duplicate, nothing overwritten.
C3_MergeIdempotent ==
  [][ neo' # neo => \A resp \in NeoResponses :
        ( /\ resp.kind = "json"
          /\ Len(resp.neos) > 0
          /\ \A i \in 1..Len(resp.neos) : resp.neos[i].id \in Ids(SAMPLE_ASTEROIDS)
          /\ FetchNeosSettle(resp) ) =>
          /\ neo' = "merged"
          /\ asteroids' = SAMPLE_ASTEROIDS
          /\ Cardinality(Ids(asteroids')) = Len(asteroids') ]_vars

C3_Witness ==
  /\ neo = "merged"
  /\ asteroids = SAMPLE_ASTEROIDS

\* C4: no two entries of the catalog have the same id.
C4_UniqueIds ==
  \A i, j \in 1..Len(asteroids) : asteroids[i].id = asteroids[j].id => i = j

\* C5: a detail fetch that fails, in whichever way, selects the clicked entry
\* as the catalog holds it, changes nothing in the catalog and ends loading.
C5_DetailFailureShowsEntry ==
  [][ \A r \in pending \ pending' : \A resp \in DetailResponses :
        (resp.kind \in FailureKinds /\ DetailSettle(r, resp)) =>
          /\ selected' = r.obj
          /\ r.obj \in Entries(asteroids')
          /\ asteroids' = asteroids
          /\ loading' = FALSE ]_vars

\* The latest detail fetch ended in the catch block and the selection is
\* the clicked entry as the catalog holds it.
C5_Witness ==
  /\ lastSettled.seq > 0
  /\ lastSettled.caught
  /\ selected.id = lastSettled.id
  /\ selected \in Entries(asteroids)

\* C6: a refresh that fails, in whichever way, or brings no entry leaves the
\* catalog the seed list and the selection as it was.
C6_RefreshFailureKeepsSeed ==
  [][ neo' # neo => \A resp \in NeoResponses :
        ( /\ \/ resp.kind \in FailureKinds
             \/ resp.kind = "nolist"
             \/ resp.kind = "json" /\ Len(resp.neos) = 0
          /\ FetchNeosSettle(resp) ) =>
          /\ asteroids' = SAMPLE_ASTEROIDS
          /\ selected' = selected ]_vars

\* The refresh ended in the catch block while an enriched entry was selected.
C6_Witness ==
  /\ neo = "caught"
  /\ asteroids = SAMPLE_ASTEROIDS
  /\ "sbdb_raw" \in DOMAIN selected

\* C7: the events of the selected entry are those of the catalog entry with
\* its id, in the same order.
C7_EventsVerbatim ==
  /\ selected.id \in Ids(asteroids)
  /\ \A i \in 1..Len(asteroids) :
       asteroids[i].id = selected.id =>
         selected.notable_events = asteroids[i].notable_events

\* An enriched entry with several events is selected after a merge.
C7_Witness ==
  /\ neo = "merged"
  /\ Len(asteroids) > Len(SAMPLE_ASTEROIDS)
  /\ "sbdb_raw" \in DOMAIN selected
  /\ Len(selected.notable_events) >= 2

\* The same letter, whatever the case.
SameLetter(c, d) ==
  c = d \/ \E k \in 1..26 : {c, d} = {Upper[k], Lower[k]}

\* t occurs in s at some offset, letter case ignored.
ContainsIgnoringCase(s, t) ==
  \E off \in 0..(Len(s) - Len(t)) :
    \A k \in 1..Len(t) : SameLetter(CharAt(s, off + k), CharAt(t, k))

\* The part of s between its leading and its trailing white space.
TrimmedPart(s) ==
  IF \A k \in 1..Len(s) : CharAt(s, k) \in WhiteSpace
  THEN ""
  ELSE LET first == CHOOSE i \in 1..Len(s) :
                      /\ CharAt(s, i) \notin WhiteSpace
                      /\ \A k \in 1..(i - 1) : CharAt(s, k) \in WhiteSpace
           last == CHOOSE j \in 1..Len(s) :
                      /\ CharAt(s, j) \notin WhiteSpace
                      /\ \A k \in (j + 1)..Len(s) : CharAt(s, k) \in WhiteSpace
       IN SubSeq(s, first, last)

\* The entry has a name, designation or id that contains t.
Contains(a, t) ==
  \E f \in {"name", "designation", "id"} :
    /\ a[f] \notin {Null, Undefined}
    /\ ContainsIgnoringCase(a[f], t)

\* C8: the filtered list is the catalog when the trimmed query is empty, and
\* otherwise the catalog's entries that contain the trimmed query in name,
\* designation or id, letter case ignored, each once and in catalog order.
C8_FilteredIsMatchingSubsequence ==
  LET t == TrimmedPart(query)
      K == { i \in 1..Len(asteroids) : Contains(asteroids[i], t) }
  IN IF t = ""
     THEN filtered = asteroids
     ELSE /\ Len(filtered) = Cardinality(K)
          /\ \A j \in 1..Len(filtered) :
               \E i \in K : /\ filtered[j] = asteroids[i]
                            /\ Cardinality({ k \in K : k < i }) = j - 1

\* A query with white space around it and mixed case selects two entries of
\* a merged catalog that are not next to each other.
C8_Witness ==
  /\ query = " ErOs\t"
  /\ neo = "merged"
  /\ Len(filtered) = 2
  /\ filtered[1] = asteroids[9]
  /\ filtered[2] = asteroids[Len(asteroids)]
  /\ Len(asteroids) > 10

\* C9 as stated: "eros" in any letter case finds exactly the entry "433".
C9_Original ==
  query \in ErosQueries => Len(filtered) = 1 /\ filtered[1].id = "433"

\* C9 amended: "eros" in any letter case finds the seed entry "433" first and
\* no other seed entry; it finds exactly that one entry as long as the
\* catalog is the seed list, and after a merge it also finds the fetched
\* entries that contain "eros".
C9_ErosFindsSeedEntry ==
  query \in ErosQueries =>
    /\ Len(filtered) >= 1
    /\ filtered[1] = SAMPLE_ASTEROIDS[9]
    /\ filtered[1].id = "433"
    /\ \A j \in 2..Len(filtered) :
         /\ filtered[j] \notin Entries(SAMPLE_ASTEROIDS)
         /\ Contains(filtered[j], "eros")
    /\ asteroids = SAMPLE_ASTEROIDS => Len(filtered) = 1

\* After a merge that brought fetched entries, none of them about Eros.
C9_Witness ==
  /\ query = "eRoS"
  /\ neo = "merged"
  /\ Len(asteroids) > Len(SAMPLE_ASTEROIDS)
  /\ Len(filtered) = 1
  /\ filtered[1].id = "433"

\* The claim's fold, on unsigned 32-bit values held as four bytes, least
\* significant first.  2166136261 is 0x811C9DC5; 16777619 is 2^24 + 403.
FoldOffset == <<197, 157, 28, 129>>

BitsOf(n) == { k \in 0..15 : (n \div (2 ^ k)) % 2 = 1 }

FromBits(S) ==
  LET sum[k \in 0..16] == IF k = 16 THEN 0
                          ELSE (IF k \in S THEN 2 ^ k ELSE 0) + sum[k + 1]
  IN sum[0]

\* b XOR code, the code below 2^16
FoldXor(b, code) ==
  LET low == FromBits((BitsOf(b[2] * 256 + b[1]) \ BitsOf(code))
                      \cup (BitsOf(code) \ BitsOf(b[2] * 256 + b[1])))
  IN <<low % 256, low \div 256, b[3], b[4]>>

\* (b * 16777619) mod 2^32
FoldMul(b) ==
  LET p1 == b[1] * 403
      p2 == b[2] * 403 + (p1 \div 256)
      p3 == b[3] * 403 + (p2 \div 256)
      p4 == b[4] * 403 + (p3 \div 256) + b[1]
  IN <<p1 % 256, p2 % 256, p3 % 256, p4 % 256>>

RECURSIVE Fold(_, _)
Fold(b, s) ==
  IF Len(s) = 0 THEN b
  ELSE Fold(FoldMul(FoldXor(b, charCode(CharAt(s, 1)))), SubSeq(s, 2, Len(s)))

\* C10: hashCode returns an integer in [0, 2^32) that is the 32-bit FNV-1a
\* fold of the character codes from 2166136261; the empty string gives
\* 2166136261 itself, "a" gives 0xE40C292C and "a4E" gives 0xFBC1EDF7.
C10_HashIsFnv1a ==
  hashRet # NotReturned =>
    LET b == Fold(FoldOffset, hashStr)
    IN /\ hashRet[1] \in 0..65535
       /\ hashRet[2] \in 0..65535
       /\ hashRet = <<b[4] * 256 + b[3], b[2] * 256 + b[1]>>
       /\ hashRet = hashCode(hashStr)
       /\ hashStr = "" => hashRet = <<33052, 40389>>
       /\ hashStr = "a" => hashRet = <<58380, 10540>>
       /\ hashStr = "a4E" => hashRet = <<64449, 60919>>

\* A string of three characters has been hashed to a value of 2^31 or more.
C10_Witness ==
  /\ hashRet # NotReturned
  /\ Len(hashStr) = 3
  /\ hashI = 3
  /\ hashRet[1] >= 32768

\* C13: the step that installs the merged catalog leaves the selected entry
\* as it was, enrichment included, when the merged catalog has an entry with
\* its id, and selects the first entry otherwise.
C13_MergeKeepsSelection ==
  [][ (neo = "pending" /\ neo' = "merged") =>
        IF selected.id \in Ids(asteroids')
        THEN selected' = selected
        ELSE selected' = asteroids'[1] ]_vars

\* Fetches started and not yet settled.
Outstanding == (IF neo = "pending" THEN 1 ELSE 0) + Cardinality(pending)

\* C14: loading is true exactly when a fetch is outstanding.
C14_LoadingTracksFetches ==
  loading <=> Outstanding > 0


\* C15: the displayed texture changes only to the texture of the current URL,
\* by the load of that URL succeeding, or to none, by the load of the current
\* URL failing or the URL being cleared; a callback of a load whose URL is no
\* longer the current one changes nothing.
C15_StaleTextureCallbackIgnored ==
  [][ /\ \A l \in texLoads \ texLoads' :
           (textureUrl' = textureUrl /\ l.url # textureUrl) => mapTex' = mapTex
      /\ mapTex' # mapTex =>
           \/ /\ mapTex' = textureUrl
              /\ textureUrl' = textureUrl
              /\ \E l \in texLoads \ texLoads' : l.url = textureUrl
           \/ /\ mapTex' = 0
              /\ \/ textureUrl # 0 /\ textureUrl' = 0
                 \/ /\ textureUrl' = textureUrl
                    /\ \E l \in texLoads \ texLoads' : l.url = textureUrl
      /\ (textureUrl # 0 /\ textureUrl' = 0) => mapTex' = 0 ]_vars

\* A callback of a replaced URL has fired, every load has ended, and the
\* texture shown is the one of the current URL.
C15_Witness ==
  /\ texStale
  /\ texLoads = {}
  /\ textureUrl = 2
  /\ mapTex = 2


\* The geometries made so far: those returned and the one in the loop, the
\* latter with the vertices displaced so far.
Geometries ==
  { shapeGeoms[k] : k \in 1..Len(shapeGeoms) }
    \cup (IF shapePc = "loop"
          THEN {[name |-> shapeName, seed |-> shapeSeed,
                 intensity |-> Intensity, pos |-> shapePos]}
          ELSE {})

\* C11: every vertex of a generated mesh of radius 1 lies between 1 - c and
\* 1 + c from the center, c being the intensity clamped to [0.02, 0.12], and
\* the weight of every vertex lies between 0.6 and 1.0.
C11_BoundedDisplacement ==
  /\ \A g \in Geometries : \A k \in 1..Len(g.pos) :
       Abs(g.pos[k]) <= Max(IntensityMin, Min(IntensityMax, g.intensity)) * 1000000
  /\ \A g \in Geometries : \A k \in 1..Len(g.pos) :
       /\ Weight(SphereVertices[k].normal) >= 600
       /\ Weight(SphereVertices[k].normal) <= 1000

\* C12: the displacement of a vertex is a function of the seed, the intensity
\* and the original position and normal of the vertex alone: two vertices
\* that agree on these, in one geometry or in two, at whatever index and
\* after whatever earlier calls, are displaced alike.
C12_ShapeDeterministic ==
  \A g1 \in Geometries : \A g2 \in Geometries :
    (g1.seed = g2.seed /\ g1.intensity = g2.intensity) =>
      \A k1 \in 1..Len(g1.pos) : \A k2 \in 1..Len(g2.pos) :
        ( /\ SphereVertices[k1].pos = SphereVertices[k2].pos
          /\ SphereVertices[k1].normal = SphereVertices[k2].normal )
          => g1.pos[k1] = g2.pos[k2]

\* The geometry of 99942 Apophis was made, then another, then that of 99942
\* Apophis again; the two vertices at the north pole are displaced alike, by
\* 0.02004, and vertex 3014 by -0.07624512.
C12_Witness ==
  /\ Len(shapeGeoms) = 3
  /\ shapeGeoms[1].name = "99942 Apophis"
  /\ shapeGeoms[3].name = "99942 Apophis"
  /\ shapeGeoms[2].name = "433 Eros"
  /\ shapeGeoms[3].pos[1] = 20040000
  /\ shapeGeoms[3].pos[2] = 20040000
  /\ shapeGeoms[1].pos[3] = -76245120
  /\ shapeGeoms[2].pos[5] = -76423500

====
